---- MODULE Spec2Model ----
(***************************************************************************)
(* Workout data access of react-native-healthkit: the effort-score         *)
(* helpers of src/utils/workoutEffort.ts on top of the native functions of *)
(* ios/WorkoutProxy.swift, and the route reconstruction of                 *)
(* getSerializedWorkoutLocations, run by callers whose calls may overlap   *)
(* against one health store that answers through callbacks.                *)
(***************************************************************************)
EXTENDS Integers, Sequences, FiniteSets, TLC

\* ---------------------------------------------------------------- bounds
MaxSets == 2         \* set calls that may reach the store in one behaviour
MaxRoutes == 2       \* samples in one answer of the route query
MaxBatches == 2      \* callbacks the store delivers to one location query
MaxBatchLen == 2     \* locations in one batch

\* ------------------------------------------------------ program constants
MinEffortScore == 1
MaxEffortScore == 10
EffortMinVersion == 180   \* iOS 18.0, as major * 10 + minor

Callers == {1, 2}     \* two callers, so that calls may overlap
Workouts == {"w1", "w2"}
PlatformVersions == {170, 180}

\* ------------------------------------------------------------ JS values
\* A JS number is kept as a count of halves, so that 2.5 is h = 5.
Num(h) == [k |-> "num", h |-> h]
NaN == [k |-> "nan", h |-> 0]
Null == [k |-> "null", h |-> 0]
True == [k |-> "bool", h |-> 1]
False == [k |-> "bool", h |-> 0]

\* The scores callers pass: NaN, 0, 1, 2.5, 10, 11.
ScoreInputs ==
  {NaN} \cup {Num(h) : h \in {0, 2, 5, 20, 22}}

\* ------------------------------------------------------------- errors
ErrInvalidScore == "Invalid workout effort score"
ErrUnsupported == "Workout effort scores are only available on iOS 18.0 and later"
ErrSelector == "unrecognized selector sent to instance"
ErrNativeRange == "Workout effort score must be between 1 and 10"
ErrStore == "store error"
ErrEmpty == "Empty response"
ErrUnexpectedEmpty == "Unexpected empty response"

NoOutcome == [kind |-> "none", err |-> "", val |-> Null, routes |-> <<>>]
Resolve(v) == [kind |-> "resolve", err |-> "", val |-> v, routes |-> <<>>]
Reject(e) == [kind |-> "reject", err |-> e, val |-> Null, routes |-> <<>>]

VARIABLES
  platformVersion,  \* the host's iOS version
  effortSamples,    \* the store's effort-score samples, in creation order
  nCreated,         \* samples created so far (the next sample's id - 1)
  op, wk, arg,      \* per caller: operation, workout, score argument
  pc,               \* per caller: position in the operation
  outcome,          \* per caller: how the promise settled
  nativeCalls,      \* per caller: calls of the native proxy method
  storeCalls,       \* per caller: store round trips (query, delete, relate)
  toDelete,         \* per caller: samples the delete loop has still to visit
  storeLog,         \* per caller: the store calls of the operation, in order
  lastSet,          \* per workout: the last successful set, if undisturbed
  getSaw,           \* per caller: lastSet of the workout when get queried
  trap,             \* the fatal error that ended the process, or "none"
  clean,            \* per workout: every set so far ran alone and succeeded
  routeAnswer,      \* per caller: what the route query's handler got first
  cont,             \* per caller: the continuation of the query in progress
  allLocations,     \* per caller: the location query's accumulator
  routeList,        \* per caller: the routes the route query returned
  routeIdx,         \* per caller: the route the loop is at
  allRoutes,        \* per caller: the Route records built so far
  hist,             \* per caller: the callbacks delivered to the location query
  delivered,        \* per caller: per location query, what it was sent up to done
  outstanding       \* per caller: queries executed and not yet resumed

effortVars ==
  <<effortSamples, nCreated, arg, nativeCalls, storeCalls, toDelete, storeLog,
    lastSet, getSaw, clean>>
routeVars ==
  <<cont, allLocations, routeList, routeIdx, allRoutes, hist, routeAnswer,
    delivered, outstanding>>

vars ==
  <<platformVersion, effortSamples, nCreated, op, wk, arg, pc,
    outcome, nativeCalls, storeCalls, toDelete, storeLog, lastSet, getSaw,
    clean, trap,
    cont, allLocations, routeList, routeIdx, allRoutes, hist, routeAnswer,
    delivered, outstanding>>

\* ------------------------------------------------- workoutEffort.ts
isInteger(v) == v.k = "num" /\ v.h % 2 = 0

MutValidNoIntegerCheck(score) ==
  score.k = "num" /\ score.h >= 2 * MinEffortScore /\ score.h <= 2 * MaxEffortScore

isValidWorkoutEffortScore(score) ==
  isInteger(score)
    /\ score.h >= 2 * MinEffortScore /\ score.h <= 2 * MaxEffortScore

\* error.message.includes('unrecognized selector')
includesUnrecognizedSelector(e) == e = ErrSelector

MutGetCatchRethrows(e) == Reject(e)

MutGetCatchSwallowsAll(e) == Resolve(Null)

\* The catch clause of getWorkoutEffortScore.
getCatch(e) ==
  IF includesUnrecognizedSelector(e) THEN Resolve(Null) ELSE Reject(e)

MutSetCatchRethrows(e) == Reject(e)

\* The catch clause of setWorkoutEffortScore.
setCatch(e) ==
  IF includesUnrecognizedSelector(e) THEN Reject(ErrUnsupported) ELSE Reject(e)

\* --------------------------------------------------------- the store
\* Samples related to workout w, in the store's default order.
StoreQuery(w) == SelectSeq(effortSamples, LAMBDA s : s.w = w)

RECURSIVE SeqRemoveId(_, _)
SeqRemoveId(samples, id) ==
  IF samples = <<>> THEN <<>>
  ELSE IF Head(samples).id = id THEN SeqRemoveId(Tail(samples), id)
  ELSE <<Head(samples)>> \o SeqRemoveId(Tail(samples), id)

HasSample(id) == \E i \in 1..Len(effortSamples) : effortSamples[i].id = id
SampleOwn(id) ==
  \E i \in 1..Len(effortSamples) : effortSamples[i].id = id /\ effortSamples[i].own

\* ------------------------------------------------ WorkoutProxy.swift
nativeAvailable == platformVersion >= EffortMinVersion

nativeScoreInRange(score) ==
  score.k = "num" /\ score.h >= 2 * MinEffortScore /\ score.h <= 2 * MaxEffortScore

MutLastSampleFirst(samples) ==
  IF samples = <<>> THEN Null ELSE Head(samples).score

getWorkoutEffortScoreInternal(samples) ==
  IF samples = <<>> THEN Null ELSE samples[Len(samples)].score

\* A continuation: pending until a callback resumes it; resumes counts the
\* calls of continuation.resume, of which the second is a fatal error.
NoAnswer == [given |-> FALSE, isNil |-> FALSE, error |-> "", samples |-> <<>>]
NoCont == [state |-> "none", err |-> "", val |-> <<>>, resumes |-> 0]
Pending == [state |-> "pending", err |-> "", val |-> <<>>, resumes |-> 0]

ClearRoute(c) ==
  /\ cont' = [cont EXCEPT ![c] = NoCont]
  /\ allLocations' = [allLocations EXCEPT ![c] = <<>>]
  /\ routeList' = [routeList EXCEPT ![c] = <<>>]
  /\ routeIdx' = [routeIdx EXCEPT ![c] = 0]
  /\ allRoutes' = [allRoutes EXCEPT ![c] = <<>>]
  /\ hist' = [hist EXCEPT ![c] = <<>>]
  /\ routeAnswer' = [routeAnswer EXCEPT ![c] = NoAnswer]
  /\ delivered' = [delivered EXCEPT ![c] = <<>>]
  /\ outstanding' = [outstanding EXCEPT ![c] = {}]

ClearEffort(c) ==
  /\ arg' = [arg EXCEPT ![c] = Null]
  /\ toDelete' = [toDelete EXCEPT ![c] = <<>>]
  /\ storeLog' = [storeLog EXCEPT ![c] = <<>>]
  /\ nativeCalls' = [nativeCalls EXCEPT ![c] = 0]
  /\ storeCalls' = [storeCalls EXCEPT ![c] = 0]
  /\ getSaw' = [getSaw EXCEPT ![c] = [valid |-> FALSE, score |-> Null]]

Idle(c) == pc[c] \in {"idle", "done"}
crashed == trap # "none"
\* Callers are interchangeable, so a call takes the second slot only while
\* the first is busy.
CanStart(c) ==
  ~crashed /\ Idle(c) /\ \A d \in Callers : d < c => ~Idle(d)
At(c, where) == ~crashed /\ pc[c] = where

SetInFlight(c) ==
  op[c] = "set" /\ pc[c] \in {"setQuery", "setDelete", "setRelate"}

OtherSetInFlight(c, w) ==
  \E d \in Callers \ {c} : SetInFlight(d) /\ wk[d] = w

\* Samples created, or about to be, by the sets that have reached the store.
SetsAdmitted == nCreated + Cardinality({c \in Callers : SetInFlight(c)})

Disturb(w) == [lastSet EXCEPT ![w] = [valid |-> FALSE, score |-> Null]]

\* One store call as the caller saw it: the samples a query returned, the
\* id of the sample a delete or a relate was about (-1 for a query).
Queried(samples, ok) ==
  [call |-> "query", ok |-> ok, id |-> -1,
   samples |-> IF ok THEN samples ELSE <<>>]
Deleted(id, ok) == [call |-> "delete", ok |-> ok, id |-> id, samples |-> <<>>]
Related(id, ok) == [call |-> "relate", ok |-> ok, id |-> id, samples |-> <<>>]

MutAfterQuerySkipsLoop(samples) == "setRelate"

\* for sample in try await descriptor.result(for: store): into the loop, or
\* past it when there is nothing to delete.
afterQuery(samples) == IF samples = <<>> THEN "setRelate" ELSE "setDelete"

MutAfterDeleteThrows(ok, rest) ==
  IF ~ok THEN "done" ELSE IF rest = <<>> THEN "setRelate" ELSE "setDelete"

\* try? await store.delete(sample): a failure is dropped, the loop goes on
\* with the rest.
afterDelete(ok, rest) == IF rest = <<>> THEN "setRelate" ELSE "setDelete"

MutRelateFailureDropped(ok) == Resolve(True)

\* try await store.relateWorkoutEffortSample(...); return true
afterRelate(ok) == IF ok THEN Resolve(True) ELSE setCatch(ErrStore)

\* setWorkoutEffortScore(workout, score) up to the first suspension.
SetStart(c, w, score) ==
  /\ CanStart(c)
  /\ SetsAdmitted < MaxSets
  /\ op' = [op EXCEPT ![c] = "set"]
  /\ wk' = [wk EXCEPT ![c] = w]
  /\ arg' = [arg EXCEPT ![c] = score]
  /\ storeCalls' = [storeCalls EXCEPT ![c] = 0]
  /\ toDelete' = [toDelete EXCEPT ![c] = <<>>]
  /\ storeLog' = [storeLog EXCEPT ![c] = <<>>]
  /\ getSaw' = [getSaw EXCEPT ![c] = [valid |-> FALSE, score |-> Null]]
  /\ IF ~isValidWorkoutEffortScore(score)
       THEN /\ nativeCalls' = [nativeCalls EXCEPT ![c] = 0]
            /\ outcome' = [outcome EXCEPT ![c] = Reject(ErrInvalidScore)]
            /\ pc' = [pc EXCEPT ![c] = "done"]
       ELSE /\ nativeCalls' = [nativeCalls EXCEPT ![c] = 1]
            /\ IF ~nativeAvailable
                 THEN /\ outcome' = [outcome EXCEPT ![c] = setCatch(ErrSelector)]
                      /\ pc' = [pc EXCEPT ![c] = "done"]
                 ELSE IF ~nativeScoreInRange(score)
                 THEN /\ outcome' = [outcome EXCEPT ![c] = setCatch(ErrNativeRange)]
                      /\ pc' = [pc EXCEPT ![c] = "done"]
                 ELSE /\ outcome' = [outcome EXCEPT ![c] = NoOutcome]
                      /\ pc' = [pc EXCEPT ![c] = "setQuery"]
  /\ clean' = IF pc'[c] = "setQuery" /\ OtherSetInFlight(c, w)
                THEN [clean EXCEPT ![w] = FALSE] ELSE clean
  /\ UNCHANGED <<platformVersion, effortSamples, nCreated, lastSet, trap>>
  /\ ClearRoute(c)

\* descriptor.result(for: store) of the set: the samples to delete.
SetQuery(c) ==
  /\ At(c, "setQuery")
  /\ storeCalls' = [storeCalls EXCEPT ![c] = @ + 1]
  /\ lastSet' = Disturb(wk[c])
  /\ \E ok \in BOOLEAN :
       /\ storeLog' = [storeLog EXCEPT ![c] =
            Append(@, Queried(StoreQuery(wk[c]), ok))]
       /\ IF ok
            THEN /\ toDelete' = [toDelete EXCEPT ![c] =
                      [i \in 1..Len(StoreQuery(wk[c])) |-> StoreQuery(wk[c])[i].id]]
                 /\ pc' = [pc EXCEPT ![c] = afterQuery(StoreQuery(wk[c]))]
                 /\ UNCHANGED outcome
            ELSE /\ outcome' = [outcome EXCEPT ![c] = setCatch(ErrStore)]
                 /\ pc' = [pc EXCEPT ![c] = "done"]
                 /\ UNCHANGED toDelete
  /\ clean' = IF pc'[c] = "done" THEN [clean EXCEPT ![wk[c]] = FALSE] ELSE clean
  /\ UNCHANGED <<platformVersion, effortSamples, nCreated, op, wk,
                 arg, nativeCalls, getSaw, trap>>
  /\ UNCHANGED routeVars

\* One turn of the delete loop: try? await store.delete(sample).
SetDelete(c) ==
  /\ At(c, "setDelete")
  /\ storeCalls' = [storeCalls EXCEPT ![c] = @ + 1]
  /\ lastSet' = Disturb(wk[c])
  /\ \E ok \in BOOLEAN :
       /\ ok => HasSample(Head(toDelete[c])) /\ SampleOwn(Head(toDelete[c]))
       /\ effortSamples' =
            IF ok THEN SeqRemoveId(effortSamples, Head(toDelete[c]))
            ELSE effortSamples
       /\ storeLog' = [storeLog EXCEPT ![c] =
            Append(@, Deleted(Head(toDelete[c]), ok))]
       /\ pc' = [pc EXCEPT ![c] = afterDelete(ok, Tail(toDelete[c]))]
  /\ toDelete' = [toDelete EXCEPT ![c] = Tail(@)]
  /\ UNCHANGED <<platformVersion, nCreated, op, wk, arg, outcome,
                 nativeCalls, getSaw, clean, trap>>
  /\ UNCHANGED routeVars

\* The new sample and store.relateWorkoutEffortSample; then return true.
SetRelate(c) ==
  /\ At(c, "setRelate")
  /\ storeCalls' = [storeCalls EXCEPT ![c] = @ + 1]
  /\ pc' = [pc EXCEPT ![c] = "done"]
  /\ \E ok \in BOOLEAN :
       IF ok
         THEN /\ effortSamples' = Append(effortSamples,
                   [id |-> nCreated + 1, w |-> wk[c], score |-> arg[c],
                    own |-> TRUE])
              /\ nCreated' = nCreated + 1
              /\ outcome' = [outcome EXCEPT ![c] = afterRelate(TRUE)]
              /\ storeLog' = [storeLog EXCEPT ![c] =
                   Append(@, Related(nCreated + 1, TRUE))]
              /\ lastSet' = [lastSet EXCEPT ![wk[c]] =
                   [valid |-> TRUE, score |-> arg[c]]]
              /\ UNCHANGED clean
         ELSE /\ outcome' = [outcome EXCEPT ![c] = afterRelate(FALSE)]
              /\ storeLog' = [storeLog EXCEPT ![c] =
                   Append(@, Related(-1, FALSE))]
              /\ lastSet' = Disturb(wk[c])
              /\ clean' = [clean EXCEPT ![wk[c]] = FALSE]
              /\ UNCHANGED <<effortSamples, nCreated>>
  /\ UNCHANGED <<platformVersion, op, wk, arg, nativeCalls,
                 toDelete, getSaw, trap>>
  /\ UNCHANGED routeVars

\* getWorkoutEffortScore(workout): one native call, one store query.
GetScore(c, w) ==
  /\ CanStart(c)
  /\ op' = [op EXCEPT ![c] = "get"]
  /\ wk' = [wk EXCEPT ![c] = w]
  /\ arg' = [arg EXCEPT ![c] = Null]
  /\ toDelete' = [toDelete EXCEPT ![c] = <<>>]
  /\ nativeCalls' = [nativeCalls EXCEPT ![c] = 1]
  /\ pc' = [pc EXCEPT ![c] = "done"]
  /\ IF ~nativeAvailable
       THEN /\ outcome' = [outcome EXCEPT ![c] = getCatch(ErrSelector)]
            /\ storeCalls' = [storeCalls EXCEPT ![c] = 0]
            /\ storeLog' = [storeLog EXCEPT ![c] = <<>>]
            /\ getSaw' = [getSaw EXCEPT ![c] = [valid |-> FALSE, score |-> Null]]
       ELSE /\ storeCalls' = [storeCalls EXCEPT ![c] = 1]
            /\ \E ok \in BOOLEAN :
               /\ storeLog' = [storeLog EXCEPT ![c] = <<Queried(StoreQuery(w), ok)>>]
               /\ IF ok
                   THEN /\ outcome' = [outcome EXCEPT ![c] =
                             Resolve(getWorkoutEffortScoreInternal(StoreQuery(w)))]
                        /\ getSaw' = [getSaw EXCEPT ![c] = lastSet[w]]
                   ELSE /\ outcome' = [outcome EXCEPT ![c] = getCatch(ErrStore)]
                        /\ getSaw' = [getSaw EXCEPT ![c] =
                             [valid |-> FALSE, score |-> Null]]
  /\ UNCHANGED <<platformVersion, effortSamples, nCreated, lastSet, clean, trap>>
  /\ ClearRoute(c)

\* isWorkoutEffortSupported()
isWorkoutEffortSupported == TRUE

CheckSupported(c) ==
  /\ CanStart(c)
  /\ op' = [op EXCEPT ![c] = "gate"]
  /\ arg' = [arg EXCEPT ![c] = Null]
  /\ toDelete' = [toDelete EXCEPT ![c] = <<>>]
  /\ nativeCalls' = [nativeCalls EXCEPT ![c] = 0]
  /\ storeCalls' = [storeCalls EXCEPT ![c] = 0]
  /\ storeLog' = [storeLog EXCEPT ![c] = <<>>]
  /\ getSaw' = [getSaw EXCEPT ![c] = [valid |-> FALSE, score |-> Null]]
  /\ pc' = [pc EXCEPT ![c] = "done"]
  /\ outcome' = [outcome EXCEPT ![c] =
       Resolve(IF isWorkoutEffortSupported THEN True ELSE False)]
  /\ UNCHANGED <<platformVersion, effortSamples, nCreated, wk, lastSet, clean, trap>>
  /\ ClearRoute(c)

\* ------------------------------------------------------- route queries
SeqsUpTo(S, n) == UNION {[1..k -> S] : k \in 0..n}

\* What the store may hand to the route query's handler as samples.
StoreSamples ==
  {[id |-> "a", kind |-> "route"], [id |-> "b", kind |-> "route"],
   [id |-> "x", kind |-> "other"]}
RouteAnswers == SeqsUpTo(StoreSamples, MaxRoutes)

\* Locations are points of a line; the platform's distance is |a - b|.
\* The i-th location the store holds for a route: a track that turns back.
TrackAt(route, i) == ((3 * i * i) % 7) + (IF route = "a" THEN 0 ELSE 10)
distanceFrom(a, b) == IF a >= b THEN a - b ELSE b - a

RECURSIVE Delivered(_)
Delivered(h) ==
  IF h = <<>> THEN 0 ELSE Len(Head(h).batch) + Delivered(Tail(h))

\* The locations the store sent in the first k callbacks of h, in order.
RECURSIVE ConcatBatches(_, _)
ConcatBatches(h, k) ==
  IF k = 0 THEN <<>> ELSE ConcatBatches(h, k - 1) \o h[k].batch

\* The callback of h that carried done first.
FirstDone(h) ==
  CHOOSE k \in 1..Len(h) : h[k].done /\ \A j \in 1..(k - 1) : ~h[j].done

\* The next n locations of the route the location query of c is about.
NextBatch(c, n) ==
  [i \in 1..n |-> TrackAt(routeList[c][routeIdx[c]].id, Delivered(hist[c]) + i)]

\* continuation.resume(...): the first call settles it, a second one traps.
resumeWith(k, state, err, val) ==
  IF k.state = "pending"
    THEN [state |-> state, err |-> err, val |-> val, resumes |-> 1]
    ELSE [k EXCEPT !.resumes = @ + 1]

MutRouteHandlerNilAsEmpty(k, samples, isNil, error) ==
  IF error # "" THEN resumeWith(k, "thrown", error, <<>>)
  ELSE resumeWith(k, "returned", "", samples)

\* The handler of HKAnchoredObjectQuery in getWorkoutRoutesInternal.
routeHandler(k, samples, isNil, error) ==
  IF error # "" THEN resumeWith(k, "thrown", error, <<>>)
  ELSE IF isNil THEN resumeWith(k, "thrown", ErrEmpty, <<>>)
  ELSE resumeWith(k, "returned", "", samples)

MutCastEmptyIsNil(samples) ==
  IF samples # <<>> /\ \A i \in 1..Len(samples) : samples[i].kind = "route"
    THEN [ok |-> TRUE, routes |-> samples]
    ELSE [ok |-> FALSE, routes |-> <<>>]

\* samples as? [HKWorkoutRoute]
castToRoutes(samples) ==
  IF \A i \in 1..Len(samples) : samples[i].kind = "route"
    THEN [ok |-> TRUE, routes |-> samples]
    ELSE [ok |-> FALSE, routes |-> <<>>]

MutSharedAccumulator(c) == 1

\* var allLocations: [CLLocation] = [] inside the continuation's closure:
\* every location query of every call has an accumulator of its own.
accumulatorOf(c) == c

MutAppendBatchReplace(all, batch) == batch

appendBatch(all, batch) == all \o batch

NoLocation == [has |-> FALSE, v |-> 0]
Some(v) == [has |-> TRUE, v |-> v]

serializeLocation(location, previousLocation) ==
  [loc |-> location,
   distance |-> IF previousLocation.has
                  THEN Some(distanceFrom(location, previousLocation.v))
                  ELSE NoLocation]

MutPreviousIsFirst(locs, i) == IF i = 1 THEN NoLocation ELSE Some(locs[1])

previousOf(locs, i) == IF i = 1 THEN NoLocation ELSE Some(locs[i - 1])

serializeLocations(locs) ==
  [i \in 1..Len(locs) |-> serializeLocation(locs[i], previousOf(locs, i))]

\* The route query is query 0 of a call, the location query of its k-th
\* route is query k.
RouteQuery == 0

MutQueriesIssuedAllAtOnce(routes, k) == k..Len(routes)

\* for route in _routes { ... await getRouteLocations(route: route) ... }:
\* the queries executed when the loop reaches route k.
queriesIssued(routes, k) == {k}

MutAppendRoutePrepends(all, record) == <<record>> \o all

\* allRoutes.append(WorkoutRoute(...))
appendRoute(all, record) == Append(all, record)

\* workout.getWorkoutRoutes(): store.execute(query) of the route query.
RoutesStart(c, w) ==
  /\ CanStart(c)
  /\ op' = [op EXCEPT ![c] = "routes"]
  /\ wk' = [wk EXCEPT ![c] = w]
  /\ pc' = [pc EXCEPT ![c] = "awaitRoutes"]
  /\ outcome' = [outcome EXCEPT ![c] = NoOutcome]
  /\ cont' = [cont EXCEPT ![c] = Pending]
  /\ allLocations' = [allLocations EXCEPT ![c] = <<>>]
  /\ routeList' = [routeList EXCEPT ![c] = <<>>]
  /\ routeIdx' = [routeIdx EXCEPT ![c] = 0]
  /\ allRoutes' = [allRoutes EXCEPT ![c] = <<>>]
  /\ hist' = [hist EXCEPT ![c] = <<>>]
  /\ routeAnswer' = [routeAnswer EXCEPT ![c] = NoAnswer]
  /\ delivered' = [delivered EXCEPT ![c] = <<>>]
  /\ outstanding' = [outstanding EXCEPT ![c] = {RouteQuery}]
  /\ ClearEffort(c)
  /\ UNCHANGED <<platformVersion, effortSamples, nCreated, lastSet, clean, trap>>

\* The store invokes the route query's handler.
RouteCallback(c, samples, isNil, error) ==
  /\ At(c, "awaitRoutes")
  /\ cont' = [cont EXCEPT ![c] = routeHandler(@, samples, isNil, error)]
  /\ routeAnswer' = [routeAnswer EXCEPT ![c] =
       IF @.given THEN @
       ELSE [given |-> TRUE, isNil |-> isNil, error |-> error,
             samples |-> samples]]
  /\ outstanding' = [outstanding EXCEPT ![c] =
       IF cont'[c].state = "pending" THEN @ ELSE @ \ {RouteQuery}]
  /\ trap' = IF cont'[c].resumes > 1 THEN "resumed twice" ELSE trap
  /\ UNCHANGED <<platformVersion, op, wk, pc, outcome, allLocations,
                 routeList, routeIdx, allRoutes, hist, delivered>>
  /\ UNCHANGED effortVars

\* The task resumes after the route query: the cast, then the first route.
RoutesResume(c) ==
  /\ At(c, "awaitRoutes")
  /\ cont[c].state \in {"returned", "thrown"}
  /\ LET cast == castToRoutes(cont[c].val) IN
       IF cont[c].state = "thrown"
         THEN /\ outcome' = [outcome EXCEPT ![c] = Reject(cont[c].err)]
              /\ pc' = [pc EXCEPT ![c] = "done"]
              /\ UNCHANGED <<cont, routeList, routeIdx, outstanding>>
       ELSE IF ~cast.ok
         THEN /\ outcome' = [outcome EXCEPT ![c] = Reject(ErrUnexpectedEmpty)]
              /\ pc' = [pc EXCEPT ![c] = "done"]
              /\ UNCHANGED <<cont, routeList, routeIdx, outstanding>>
       ELSE IF cast.routes = <<>>
         THEN /\ outcome' = [outcome EXCEPT ![c] =
                   [kind |-> "resolve", err |-> "", val |-> Null, routes |-> <<>>]]
              /\ pc' = [pc EXCEPT ![c] = "done"]
              /\ UNCHANGED <<cont, routeList, routeIdx, outstanding>>
       ELSE /\ routeList' = [routeList EXCEPT ![c] = cast.routes]
            /\ routeIdx' = [routeIdx EXCEPT ![c] = 1]
            /\ cont' = [cont EXCEPT ![c] = Pending]
            /\ outstanding' = [outstanding EXCEPT ![c] =
                 @ \cup queriesIssued(cast.routes, 1)]
            /\ pc' = [pc EXCEPT ![c] = "awaitLocations"]
            /\ UNCHANGED outcome
  /\ UNCHANGED <<platformVersion, op, wk, trap, allLocations, allRoutes, hist,
                 routeAnswer, delivered>>
  /\ UNCHANGED effortVars

\* The store invokes the handler of the HKWorkoutRouteQuery in progress.
\* kind: "ok" (a batch), "nil" (neither batch nor error), "err" (an error).
LocationCallback(c, kind, batch, done) ==
  /\ At(c, "awaitLocations")
  /\ Len(hist[c]) < MaxBatches
  /\ hist' = [hist EXCEPT ![c] =
       Append(@, [kind |-> kind, batch |-> batch, done |-> done])]
  /\ IF kind = "err"
       THEN /\ cont' = [cont EXCEPT ![c] = resumeWith(@, "thrown", ErrStore, <<>>)]
            /\ UNCHANGED allLocations
     ELSE IF kind = "nil"
       THEN /\ cont' = [cont EXCEPT ![c] = resumeWith(@, "thrown", ErrEmpty, <<>>)]
            /\ UNCHANGED allLocations
       ELSE /\ allLocations' = [allLocations EXCEPT ![accumulatorOf(c)] =
                 appendBatch(@, batch)]
            /\ cont' = [cont EXCEPT ![c] =
                 IF done
                   THEN resumeWith(@, "returned", "",
                                   allLocations'[accumulatorOf(c)])
                   ELSE @]
  /\ outstanding' = [outstanding EXCEPT ![c] =
       IF cont'[c].state = "pending" THEN @ ELSE @ \ {routeIdx[c]}]
  /\ trap' = IF cont'[c].resumes > 1 THEN "resumed twice" ELSE trap
  /\ UNCHANGED <<platformVersion, op, wk, pc, outcome, routeList, routeIdx,
                 allRoutes, routeAnswer, delivered>>
  /\ UNCHANGED effortVars

\* The task resumes after a location query: try! on its result, the Route
\* record, then the next route or the return.
LocationsResume(c) ==
  /\ At(c, "awaitLocations")
  /\ cont[c].state \in {"returned", "thrown"}
  /\ IF cont[c].state = "thrown"
       THEN /\ trap' = "try!"
            /\ UNCHANGED <<pc, outcome, cont, allLocations, routeIdx, allRoutes,
                           hist, delivered, outstanding>>
       ELSE LET record == [syncId |-> routeList[c][routeIdx[c]].id,
                           locations |-> serializeLocations(cont[c].val)]
                built == appendRoute(allRoutes[c], record)
            IN /\ allRoutes' = [allRoutes EXCEPT ![c] = built]
               /\ allLocations' = [allLocations EXCEPT ![c] = <<>>]
               /\ delivered' = [delivered EXCEPT ![c] =
                    Append(@, ConcatBatches(hist[c], FirstDone(hist[c])))]
               /\ hist' = [hist EXCEPT ![c] = <<>>]
               /\ UNCHANGED trap
               /\ IF routeIdx[c] < Len(routeList[c])
                    THEN /\ routeIdx' = [routeIdx EXCEPT ![c] = @ + 1]
                         /\ cont' = [cont EXCEPT ![c] = Pending]
                         /\ outstanding' = [outstanding EXCEPT ![c] =
                              @ \cup queriesIssued(routeList[c], routeIdx[c] + 1)]
                         /\ UNCHANGED <<pc, outcome>>
                    ELSE /\ outcome' = [outcome EXCEPT ![c] =
                              [kind |-> "resolve", err |-> "", val |-> Null,
                               routes |-> built]]
                         /\ pc' = [pc EXCEPT ![c] = "done"]
                         /\ UNCHANGED <<cont, routeIdx, outstanding>>
  /\ UNCHANGED <<platformVersion, op, wk, routeList, routeAnswer>>
  /\ UNCHANGED effortVars

\* A handler of a query whose continuation the task has already consumed is
\* invoked again and resumes it a second time.
LateCallback(c) ==
  /\ ~crashed
  /\ op[c] = "routes"
  /\ pc[c] \in {"awaitLocations", "done"}
  /\ trap' = "resumed twice"
  /\ UNCHANGED <<platformVersion, op, wk, pc, outcome>>
  /\ UNCHANGED routeVars
  /\ UNCHANGED effortVars

ForeignSample == [id |-> 0, w |-> "w1", score |-> Num(8), own |-> FALSE]

Init ==
  /\ platformVersion \in PlatformVersions
  /\ effortSamples \in {<<>>, <<ForeignSample>>}
  /\ nCreated = 0
  /\ op = [c \in Callers |-> "none"]
  /\ wk = [c \in Callers |-> "w1"]
  /\ arg = [c \in Callers |-> Null]
  /\ pc = [c \in Callers |-> "idle"]
  /\ outcome = [c \in Callers |-> NoOutcome]
  /\ nativeCalls = [c \in Callers |-> 0]
  /\ storeCalls = [c \in Callers |-> 0]
  /\ toDelete = [c \in Callers |-> <<>>]
  /\ storeLog = [c \in Callers |-> <<>>]
  /\ lastSet = [w \in Workouts |-> [valid |-> FALSE, score |-> Null]]
  /\ getSaw = [c \in Callers |-> [valid |-> FALSE, score |-> Null]]
  /\ trap = "none"
  /\ clean = [w \in Workouts |-> TRUE]
  /\ routeAnswer = [c \in Callers |-> NoAnswer]
  /\ cont = [c \in Callers |-> NoCont]
  /\ allLocations = [c \in Callers |-> <<>>]
  /\ routeList = [c \in Callers |-> <<>>]
  /\ routeIdx = [c \in Callers |-> 0]
  /\ allRoutes = [c \in Callers |-> <<>>]
  /\ hist = [c \in Callers |-> <<>>]
  /\ delivered = [c \in Callers |-> <<>>]
  /\ outstanding = [c \in Callers |-> {}]

EffortNext ==
  \E c \in Callers :
    \/ \E w \in Workouts, score \in ScoreInputs : SetStart(c, w, score)
    \/ SetQuery(c)
    \/ SetDelete(c)
    \/ SetRelate(c)
    \/ \E w \in Workouts : GetScore(c, w)
    \/ CheckSupported(c)

RouteCallers == {1}

RouteNext ==
  \E c \in RouteCallers :
    \/ \E w \in Workouts : RoutesStart(c, w)
    \/ \E samples \in RouteAnswers, error \in {"", ErrStore} :
         RouteCallback(c, samples, FALSE, error)
    \/ \E error \in {"", ErrStore} : RouteCallback(c, <<>>, TRUE, error)
    \/ RoutesResume(c)
    \/ \E n \in 0..MaxBatchLen, done \in BOOLEAN :
         LocationCallback(c, "ok", NextBatch(c, n), done)
    \/ \E kind \in {"nil", "err"} : LocationCallback(c, kind, <<>>, FALSE)
    \/ LocationsResume(c)
    \/ LateCallback(c)

\* Every operation. The effort-score calls and the route calls share no
\* state but trap, so each half is also checked on its own below.
Next == EffortNext \/ RouteNext

Spec == Init /\ [][Next]_vars

\* The effort-score helpers, run by concurrent callers.
EffortSpec == Init /\ [][EffortNext]_vars

\* getWorkoutRoutes against a store that may invoke handlers at any time.
\* The route queries read neither the platform version nor the effort samples.
RouteInit == Init /\ platformVersion = EffortMinVersion /\ effortSamples = <<>>
RouteSpec == RouteInit /\ [][RouteNext]_vars

\* Two overlapping getWorkoutRoutes calls, each on a workout of its own, of
\* which the store holds one route; the store delivers their batches in any
\* interleaving.
WorkoutOf(c) == IF c = 1 THEN "w1" ELSE "w2"
RoutesOf(w) ==
  IF w = "w1" THEN <<[id |-> "a", kind |-> "route"]>>
  ELSE <<[id |-> "b", kind |-> "route"]>>

ConcurrentRouteNext ==
  \E c \in Callers :
    \/ RoutesStart(c, WorkoutOf(c))
    \/ \E error \in {"", ErrStore} :
         RouteCallback(c, RoutesOf(wk[c]), FALSE, error)
    \/ RoutesResume(c)
    \/ \E n \in 0..MaxBatchLen, done \in BOOLEAN :
         LocationCallback(c, "ok", NextBatch(c, n), done)
    \/ \E kind \in {"nil", "err"} : LocationCallback(c, kind, <<>>, FALSE)
    \/ LocationsResume(c)

ConcurrentRouteSpec == RouteInit /\ [][ConcurrentRouteNext]_vars

\* The last store call of c as this step made it.
LastCallDone(c) == storeLog'[c][Len(storeLog'[c])]

\* One caller sets and gets the score of one workout, call after call. The
\* workout starts without samples, so every sample is the app's own and
\* every delete succeeds; the query and the relate may fail.
SequentialCallers == {1}

SequentialSetInit ==
  Init /\ platformVersion = EffortMinVersion /\ effortSamples = <<>>

SequentialSetNext ==
  \E c \in SequentialCallers :
    \/ \E score \in ScoreInputs : SetStart(c, "w1", score)
    \/ SetQuery(c)
    \/ SetDelete(c) /\ LastCallDone(c).ok
    \/ SetRelate(c)
    \/ GetScore(c, "w1")

SequentialSetSpec == SequentialSetInit /\ [][SequentialSetNext]_vars

\* Two overlapping sets on one workout: the second caller calls once, while
\* a set of the first is in flight, and the first starts no call after
\* that. Every sample is the app's own: a delete fails only when the sample
\* is already gone.
OverlapSetNext ==
  \E c \in Callers :
    \/ \E score \in ScoreInputs : op[2] = "none" /\ SetStart(c, "w1", score)
    \/ SetQuery(c)
    \/ SetDelete(c) /\ (LastCallDone(c).ok <=> HasSample(Head(toDelete[c])))
    \/ SetRelate(c)

OverlapSetSpec == SequentialSetInit /\ [][OverlapSetNext]_vars

\* ================================================================ claims
IsIntegerFrom1To10(v) == \E n \in 1..10 : v = Num(2 * n)

\* C1: a set whose score is not an integer in [1,10] rejects with the
\* validation error without calling the native method or the store.
C1_InvalidScoreRejectedLocally ==
  \A c \in Callers :
    (op[c] = "set" /\ ~IsIntegerFrom1To10(arg[c])) =>
      /\ pc[c] = "done"
      /\ outcome[c] = Reject(ErrInvalidScore)
      /\ nativeCalls[c] = 0
      /\ storeCalls[c] = 0

C1_Witness ==
  \E c \in Callers :
    /\ platformVersion >= EffortMinVersion
    /\ op[c] = "set" /\ arg[c] = Num(5) /\ pc[c] = "done"
    /\ outcome[c] = Reject(ErrInvalidScore)

\* C2: round trip: a get whose query runs after a successful set of s on the
\* same workout, with no step of any set on that workout in between,
\* returns s.
C2_RoundTrip ==
  \A c \in Callers :
    (op[c] = "get" /\ pc[c] = "done" /\ getSaw[c].valid) =>
      outcome[c] = Resolve(getSaw[c].score)

C2_Witness ==
  \E c \in Callers :
    /\ op[c] = "get" /\ pc[c] = "done" /\ getSaw[c].valid
    /\ outcome[c] = Resolve(Num(20))
    /\ Len(StoreQuery(wk[c])) >= 2

SetOnWorkoutInFlight(w) == \E c \in Callers : SetInFlight(c) /\ wk[c] = w

\* C3: last write wins: when every set on a workout so far ran alone and
\* succeeded, a get returns the score of the latest one, also while samples
\* of earlier sets are still in the store.
C3_LastWriteWins ==
  \A w \in Workouts :
    (clean[w] /\ lastSet[w].valid /\ ~SetOnWorkoutInFlight(w)) =>
      getWorkoutEffortScoreInternal(StoreQuery(w)) = lastSet[w].score

C3_Witness ==
  \E w \in Workouts :
    /\ clean[w] /\ lastSet[w].valid /\ ~SetOnWorkoutInFlight(w)
    /\ Len(StoreQuery(w)) >= 2
    /\ \A i \in 1..Len(StoreQuery(w)) : StoreQuery(w)[i].own
    /\ StoreQuery(w)[1].score # lastSet[w].score

\* C4: no bridged query's continuation is resumed a second time, whatever
\* callbacks the store delivers.
C4_OneTerminalOutcome ==
  \A c \in Callers : cont[c].resumes <= 1

\* The first callback of the location query in progress that is not a
\* batch without done is an error.
LocationErrorDelivered(c) ==
  \E i \in 1..Len(hist[c]) :
    /\ hist[c][i].kind = "err"
    /\ \A j \in 1..(i - 1) : hist[c][j].kind = "ok" /\ ~hist[c][j].done

\* C5: once a callback of the location query has carried an error, the call
\* ends as a rejection with that error and in no other way.
C5_LocationErrorRejects ==
  \A c \in Callers :
    (op[c] = "routes" /\ pc[c] \in {"awaitLocations", "done"}
       /\ LocationErrorDelivered(c)) =>
      /\ trap # "try!"
      /\ pc[c] = "done" => outcome[c] = Reject(ErrStore)

\* Callbacks 1..k of h are error-free batches with done on the k-th only.
DoneAt(h, k) ==
  /\ k \in 1..Len(h)
  /\ \A j \in 1..k : h[j].kind = "ok" /\ (h[j].done <=> j = k)

\* C6: the location query is not resolved while only batches without done
\* have arrived, and the done batch resolves it to the concatenation of the
\* batches in delivery order.
C6_BatchesConcatenated ==
  \A c \in Callers :
    (op[c] = "routes" /\ pc[c] = "awaitLocations") =>
      /\ (\A j \in 1..Len(hist[c]) : hist[c][j].kind = "ok" /\ ~hist[c][j].done)
           => cont[c].state = "pending"
      /\ \A k \in 1..Len(hist[c]) :
           DoneAt(hist[c], k) =>
             /\ cont[c].state = "returned"
             /\ cont[c].val = ConcatBatches(hist[c], k)
             /\ Len(cont[c].val) = Delivered(SubSeq(hist[c], 1, k))

C6_Witness ==
  \E c \in Callers :
    /\ op[c] = "routes" /\ pc[c] = "awaitLocations"
    /\ DoneAt(hist[c], 2)
    /\ Len(hist[c][1].batch) = 2 /\ Len(hist[c][2].batch) = 1
    /\ cont[c].state = "returned" /\ Len(cont[c].val) = 3

EmptyAnswer(c) ==
  /\ routeAnswer[c].given /\ ~routeAnswer[c].isNil
  /\ routeAnswer[c].error = "" /\ routeAnswer[c].samples = <<>>

NilAnswer(c) ==
  routeAnswer[c].given /\ routeAnswer[c].isNil /\ routeAnswer[c].error = ""

\* C7: when the route query succeeds with an empty list, getWorkoutRoutes
\* resolves to an empty route list.
C7_NoRoutesResolvesEmpty ==
  \A c \in Callers :
    (op[c] = "routes" /\ pc[c] # "awaitRoutes" /\ EmptyAnswer(c)) =>
      /\ pc[c] = "done"
      /\ outcome[c].kind = "resolve"
      /\ outcome[c].routes = <<>>

C7_Witness ==
  \E c \in Callers :
    /\ op[c] = "routes" /\ pc[c] = "done" /\ EmptyAnswer(c)
    /\ outcome[c].kind = "resolve" /\ outcome[c].routes = <<>>

\* C8: a route-query callback with neither error nor samples rejects with
\* "Empty response"; one with an empty list and no error resolves the query
\* with that empty list.
C8_NilRejectsEmptyResolves ==
  \A c \in Callers :
    op[c] = "routes" =>
      /\ NilAnswer(c) =>
           /\ cont[c].state = "thrown" /\ cont[c].err = ErrEmpty
           /\ pc[c] # "awaitRoutes" =>
                pc[c] = "done" /\ outcome[c] = Reject(ErrEmpty)
      /\ (EmptyAnswer(c) /\ pc[c] = "awaitRoutes") =>
           cont[c].state = "returned" /\ cont[c].val = <<>>

C8_Witness ==
  \E c \in Callers :
    /\ op[c] = "routes" /\ NilAnswer(c)
    /\ pc[c] = "done" /\ outcome[c] = Reject(ErrEmpty)

\* The locations of a Route record follow the route's track in delivery
\* order, the first with no distance, each other with the distance from its
\* predecessor.
DistancesInOrder(record) ==
  \A i \in 1..Len(record.locations) :
    /\ record.locations[i].loc = TrackAt(record.syncId, i)
    /\ record.locations[i].distance =
         IF i = 1 THEN NoLocation
         ELSE Some(distanceFrom(TrackAt(record.syncId, i - 1),
                                TrackAt(record.syncId, i)))

\* C9: in every reconstructed route, location 0 has no distance and location
\* i > 0 has the distance between locations i-1 and i of the delivery order.
C9_DistanceFromPredecessor ==
  \A c \in Callers :
    /\ \A r \in 1..Len(allRoutes[c]) : DistancesInOrder(allRoutes[c][r])
    /\ \A r \in 1..Len(outcome[c].routes) : DistancesInOrder(outcome[c].routes[r])

C9_Witness ==
  \E c \in Callers :
    /\ pc[c] = "done" /\ outcome[c].kind = "resolve"
    /\ \E r \in 1..Len(outcome[c].routes) :
         /\ Len(outcome[c].routes[r].locations) >= 3
         /\ outcome[c].routes[r].locations[1].distance = NoLocation
         /\ outcome[c].routes[r].locations[3].distance = Some(1)

\* C10: isWorkoutEffortSupported returns false below iOS 18.0 and true from
\* 18.0 on.
C10_GateFollowsVersion ==
  \A c \in Callers :
    (op[c] = "gate" /\ pc[c] = "done") =>
      outcome[c] =
        Resolve(IF platformVersion >= EffortMinVersion THEN True ELSE False)

Unsupported == platformVersion < EffortMinVersion

\* C11: below iOS 18.0 getWorkoutEffortScore resolves to null and never
\* rejects: it makes one native call, whose unrecognized-selector error is
\* mapped to null, and no store call.
C11_UnsupportedGetIsNull ==
  \A c \in Callers :
    (Unsupported /\ op[c] = "get") =>
      /\ pc[c] = "done"
      /\ outcome[c] = Resolve(Null)
      /\ nativeCalls[c] = 1
      /\ storeCalls[c] = 0

C11_Witness ==
  \E c \in Callers :
    /\ Unsupported /\ op[c] = "get" /\ pc[c] = "done"
    /\ outcome[c].kind = "resolve" /\ outcome[c].val = Null
    /\ nativeCalls[c] = 1

\* C12: below iOS 18.0 a set with a valid score rejects with the
\* capability-unavailable error, which differs from the validation error; a
\* set with an invalid score rejects with the validation error before any
\* native call.
C12_UnsupportedSetRejects ==
  \A c \in Callers :
    (Unsupported /\ op[c] = "set") =>
      /\ pc[c] = "done"
      /\ storeCalls[c] = 0
      /\ IF IsIntegerFrom1To10(arg[c])
           THEN /\ outcome[c] = Reject(ErrUnsupported)
                /\ outcome[c] # Reject(ErrInvalidScore)
                /\ nativeCalls[c] = 1
           ELSE /\ outcome[c] = Reject(ErrInvalidScore)
                /\ nativeCalls[c] = 0

C12_Witness ==
  \E c \in Callers :
    /\ Unsupported /\ op[c] = "set" /\ pc[c] = "done"
    /\ arg[c] = Num(20)
    /\ outcome[c] = Reject(ErrUnsupported)

\* The set of c got the samples of its workout from the store.
SetQueried(c) ==
  op[c] = "set" /\ storeLog[c] # <<>> /\ storeLog[c][1].ok

\* Call i + 1 of the set of c is the delete of the i-th sample queried.
DeleteAttempted(c, i) ==
  /\ i + 1 <= Len(storeLog[c])
  /\ storeLog[c][i + 1].call = "delete"
  /\ storeLog[c][i + 1].id = storeLog[c][1].samples[i].id

LastCall(c) == storeLog[c][Len(storeLog[c])]

\* C13: a failed deletion never aborts the set: whichever deletions fail,
\* the set stays in flight until every sample queried has had its delete
\* attempt and the relate has been called, and it resolves to true when the
\* relate succeeds.
C13_FailedDeleteDoesNotAbort ==
  \A c \in Callers :
    SetQueried(c) =>
      LET n == Len(storeLog[c][1].samples) IN
        /\ pc[c] # "done" => outcome[c] = NoOutcome
        /\ pc[c] = "setRelate" =>
             Len(storeLog[c]) = n + 1 /\ \A i \in 1..n : DeleteAttempted(c, i)
        /\ pc[c] = "done" =>
             /\ Len(storeLog[c]) = n + 2
             /\ \A i \in 1..n : DeleteAttempted(c, i)
             /\ LastCall(c).call = "relate"
             /\ LastCall(c).ok => outcome[c] = Resolve(True)

C13_Witness ==
  \E c \in Callers :
    /\ SetQueried(c) /\ pc[c] = "done" /\ outcome[c] = Resolve(True)
    /\ Len(storeLog[c][1].samples) = 2
    /\ ~storeLog[c][2].ok /\ DeleteAttempted(c, 2)
    /\ \E i \in 1..Len(effortSamples) :
         effortSamples[i].id = LastCall(c).id /\ effortSamples[i].score = arg[c]

\* C14: a set resolves (to true) only when its relate call has succeeded,
\* and a set whose relate call failed rejects with that failure.
C14_SuccessOnlyAfterRelate ==
  \A c \in Callers :
    op[c] = "set" =>
      /\ outcome[c].kind = "resolve" =>
           /\ pc[c] = "done" /\ outcome[c] = Resolve(True)
           /\ storeLog[c] # <<>>
           /\ LastCall(c).call = "relate" /\ LastCall(c).ok
      /\ (storeLog[c] # <<>> /\ LastCall(c).call = "relate" /\ ~LastCall(c).ok) =>
           pc[c] = "done" /\ outcome[c] = Reject(ErrStore)

C14_Witness ==
  \E c \in Callers :
    /\ op[c] = "set" /\ pc[c] = "done"
    /\ Len(storeLog[c]) >= 3
    /\ LastCall(c).call = "relate" /\ ~LastCall(c).ok
    /\ outcome[c] = Reject(ErrStore)

\* The get of c got an answer to its query from the store.
GetQueried(c) ==
  op[c] = "get" /\ pc[c] = "done" /\ storeLog[c] # <<>> /\ storeLog[c][1].ok

\* C15: a get resolves to null exactly when its query returned no sample,
\* and otherwise to the score of the last sample in the order the store
\* returned them.
C15_LastOfReturnedOrder ==
  \A c \in Callers :
    GetQueried(c) =>
      LET samples == storeLog[c][1].samples IN
        /\ outcome[c].kind = "resolve"
        /\ outcome[c].val = Null <=> samples = <<>>
        /\ samples # <<>> => outcome[c].val = samples[Len(samples)].score

C15_Witness ==
  \E c \in Callers :
    /\ GetQueried(c)
    /\ Len(storeLog[c][1].samples) >= 2
    /\ storeLog[c][1].samples[1].score # outcome[c].val
    /\ outcome[c].val = Num(2)

\* The locations of a Route record, without their distances.
LocsOf(record) == [i \in 1..Len(record.locations) |-> record.locations[i].loc]

\* What a call builds from the answers the store gave to it alone.
AloneResult(c) ==
  [k \in 1..Len(delivered[c]) |->
     [syncId |-> routeAnswer[c].samples[k].id,
      locations |-> serializeLocations(delivered[c][k])]]

OnTrackOf(w, loc) ==
  \E i \in 1..(MaxBatches * MaxBatchLen) : loc = TrackAt(RoutesOf(w)[1].id, i)

RoutesResolved(c) ==
  op[c] = "routes" /\ pc[c] = "done" /\ outcome[c].kind = "resolve"

\* C16: of two overlapping getWorkoutRoutes calls on different workouts,
\* each resolves to what the store's answers to that call alone make, under
\* every interleaving of their callbacks, and no location of one workout's
\* route appears in the other's result.
C16_ConcurrentCallsIsolated ==
  \A c \in Callers :
    /\ op[c] = "routes" =>
         allRoutes[c] = AloneResult(c)
    /\ (op[c] = "routes" /\ pc[c] = "done" /\ outcome[c].kind = "reject") =>
         routeAnswer[c].error # "" /\ outcome[c].err = routeAnswer[c].error
    /\ RoutesResolved(c) =>
         /\ routeAnswer[c].error = ""
         /\ outcome[c].routes = AloneResult(c)
         /\ Len(outcome[c].routes) = Len(RoutesOf(wk[c]))
         /\ \A r \in 1..Len(outcome[c].routes) :
              \A i \in 1..Len(outcome[c].routes[r].locations) :
                OnTrackOf(wk[c], outcome[c].routes[r].locations[i].loc)

C16_Witness ==
  /\ \A c \in Callers :
       /\ RoutesResolved(c)
       /\ Len(outcome[c].routes) = 1
       /\ Len(outcome[c].routes[1].locations) >= 3
  /\ wk[1] # wk[2]
  /\ outcome[1].routes # outcome[2].routes

\* The route query's handler got samples without error, none of them a
\* route.
NoRouteInAnswer(c) ==
  /\ routeAnswer[c].given /\ ~routeAnswer[c].isNil /\ routeAnswer[c].error = ""
  /\ \A i \in 1..Len(routeAnswer[c].samples) :
       routeAnswer[c].samples[i].kind # "route"

\* C17: when the route query succeeds and its answer holds no sample of the
\* route kind, getWorkoutRoutes resolves to an empty route list and does not
\* reject.
C17_NoRouteKindResolvesEmpty ==
  \A c \in Callers :
    (op[c] = "routes" /\ pc[c] = "done" /\ NoRouteInAnswer(c)) =>
      /\ outcome[c].kind = "resolve"
      /\ outcome[c].routes = <<>>

\* C18: the store calls of one set are strictly ordered: the query first
\* and only first, then one delete per queried sample in query order, then
\* the relate, last and only after the delete of the last queried sample.
C18_SetStoreCallsOrdered ==
  \A c \in Callers :
    op[c] = "set" =>
      LET log == storeLog[c] IN
        /\ Len(log) = storeCalls[c]
        /\ pc[c] = "setQuery" <=> (nativeCalls[c] = 1 /\ nativeAvailable /\ log = <<>>)
        /\ \A i \in 1..Len(log) :
             /\ log[i].call = "query" <=> i = 1
             /\ log[i].call = "delete" =>
                  /\ log[1].ok /\ i - 1 <= Len(log[1].samples)
                  /\ log[i].id = log[1].samples[i - 1].id
             /\ log[i].call = "relate" =>
                  /\ log[1].ok
                  /\ i = Len(log[1].samples) + 2
                  /\ i = Len(log)
        /\ pc[c] = "setDelete" =>
             toDelete[c] =
               [j \in 1..(Len(log[1].samples) - (Len(log) - 1)) |->
                  log[1].samples[Len(log) - 1 + j].id]
        /\ pc[c] = "setRelate" => toDelete[c] = <<>>

C18_Witness ==
  \E c \in Callers :
    /\ op[c] = "set" /\ pc[c] = "done"
    /\ Len(storeLog[c]) = 4
    /\ storeLog[c][2].call = "delete" /\ storeLog[c][3].call = "delete"
    /\ storeLog[c][2].id # storeLog[c][3].id
    /\ storeLog[c][4].call = "relate"

\* C19: one getWorkoutRoutes call has at most one store query outstanding:
\* a location query is executed only after the route query was resumed, and
\* the location query of route k only after those of routes 1..k-1 were.
C19_OneQueryOutstanding ==
  \A c \in Callers :
    /\ Cardinality(outstanding[c]) <= 1
    /\ \A k \in outstanding[c] :
         k # RouteQuery =>
           /\ routeAnswer[c].given /\ cont[c].state = "pending"
           /\ pc[c] = "awaitLocations" /\ routeIdx[c] = k
           /\ Len(delivered[c]) = k - 1

C19_Witness ==
  \E c \in Callers :
    /\ op[c] = "routes" /\ outstanding[c] = {2}
    /\ Len(delivered[c]) = 1 /\ Len(routeList[c]) = 2

\* C20: a resolved getWorkoutRoutes has one Route record per route of the
\* route query's answer, in the answer's order, and record k holds the
\* locations the store delivered for route k.
C20_OneRecordPerRouteInOrder ==
  \A c \in Callers :
    RoutesResolved(c) =>
      /\ Len(outcome[c].routes) = Len(routeAnswer[c].samples)
      /\ Len(delivered[c]) = Len(routeAnswer[c].samples)
      /\ \A k \in 1..Len(outcome[c].routes) :
           /\ outcome[c].routes[k].syncId = routeAnswer[c].samples[k].id
           /\ LocsOf(outcome[c].routes[k]) = delivered[c][k]

C20_Witness ==
  \E c \in Callers :
    /\ RoutesResolved(c)
    /\ Len(outcome[c].routes) = 2
    /\ outcome[c].routes[1].syncId = "a" /\ outcome[c].routes[2].syncId = "b"
    /\ Len(outcome[c].routes[1].locations) = 1
    /\ Len(outcome[c].routes[2].locations) >= 2

\* The native call of c, a get or a set, failed at the store: its query or
\* its relate raised the store's error.
NativeCallFailed(c) ==
  /\ op[c] \in {"get", "set"} /\ storeLog[c] # <<>>
  /\ LastCall(c).call \in {"query", "relate"} /\ ~LastCall(c).ok

\* C21: a failure of the native effort-score call that is not an
\* unrecognized-selector error rejects the get or the set with that same
\* error, and an invocation makes the native call once, never again.
C21_NativeFailurePassesThrough ==
  \A c \in Callers :
    /\ op[c] \in {"get", "set"} => nativeCalls[c] <= 1
    /\ NativeCallFailed(c) =>
         /\ ~includesUnrecognizedSelector(ErrStore)
         /\ pc[c] = "done"
         /\ outcome[c] = Reject(ErrStore)
         /\ nativeCalls[c] = 1

C21_Witness ==
  \E c \in Callers :
    /\ op[c] = "get" /\ NativeCallFailed(c)
    /\ outcome[c] = Reject(ErrStore) /\ nativeCalls[c] = 1

\* C22: from a workout without samples, after non-overlapping sets whose
\* deletes all succeed, the store holds exactly one sample of the workout as
\* soon as one set has succeeded, with the score of the last successful set.
C22_OneSampleAfterSequentialSets ==
  \A c \in SequentialCallers :
    (Idle(c) /\ nCreated >= 1) =>
      /\ Len(StoreQuery("w1")) = 1
      /\ lastSet["w1"].valid => StoreQuery("w1")[1].score = lastSet["w1"].score

\* Both callers' sets, which overlapped, have resolved to true.
BothSetsSucceeded ==
  \A c \in Callers :
    op[c] = "set" /\ pc[c] = "done" /\ outcome[c] = Resolve(True)

\* C23: when two overlapping sets on one workout have both succeeded, with
\* every sample deletable, the store holds exactly one sample of the workout
\* and a get returns the score of one of the two sets.
C23_OneSampleAfterOverlappingSets ==
  BothSetsSucceeded =>
    /\ wk[1] = wk[2]
    /\ Len(StoreQuery(wk[1])) = 1
    /\ getWorkoutEffortScoreInternal(StoreQuery(wk[1])) \in {arg[1], arg[2]}

====
